---- MODULE Spec2Model ----
(***************************************************************************)
(* Model of Epic-Logger-Agent:                                             *)
(*   - app/theme_loader.py       ThemeLoader (the theme registry)          *)
(*   - app/epic_log_generator.py EpicChangelogAgent (the request builder)  *)
(* Strings whose characters matter (file stems, theme keys) are tuples of  *)
(* one-character strings, so that str.lower() and str.replace() are        *)
(* computed and not assumed.                                               *)
(***************************************************************************)
EXTENDS Integers, Sequences, FiniteSets, TLC

VARIABLES
    phase,          \* "new" (inside __init__, before line 26) | "ready" | "dead" (__init__ raised)
    defaultDir,     \* Default_Themes: stem |-> file content (the *.json files)
    customDir,      \* Custom_Themes:  stem |-> file content
    defaultExists,  \* Default_Themes directory exists
    customExists,   \* Custom_Themes directory exists
    themes,         \* self.themes of ThemeLoader: key |-> entry
    ret,            \* the last call of a ThemeLoader method and what it returned
    customDirBefore,\* Custom_Themes as it was when the last call started
    themesBefore,   \* self.themes as it was when the last call started
    calls,          \* number of ThemeLoader method calls made after construction
    ioFailed,       \* the last call met a failing mkdir, copy or write
    agent,          \* the EpicChangelogAgent: its phase and its fields
    genArgs,        \* arguments of the last call, a generate_epic_changelog call
    request,        \* the payload of its requests.post, or NoRequest
    posts,          \* number of requests.post calls it made
    result,         \* what that generate_epic_changelog call returned
    response,       \* what requests.post answered in that call, or NoResponse
    ctor,           \* what __init__ was given: its api_key, and the environment
    agentCalls,     \* number of EpicChangelogAgent method calls after construction
    fileCall        \* the last call, a process_changelog_file call: its file, what
                    \* it returned and the generate_epic_changelog calls it made

loaderVars == <<phase, defaultDir, customDir, defaultExists, customExists,
                themes, ret, customDirBefore, themesBefore, calls, ioFailed>>

agentVars == <<agent, genArgs, request, posts, result, response, ctor, agentCalls,
              fileCall>>

vars == <<loaderVars, agentVars>>

----------------------------------------------------------------------------
(* Bounds *)

MaxFiles == 2       \* files in the two theme directories of the initial file system
MaxCalls == 2       \* ThemeLoader method calls after construction
MaxAgentCalls == 1  \* EpicChangelogAgent method calls after construction
MaxLines == 2       \* lines of a changelog file

----------------------------------------------------------------------------
(* Strings as tuples of characters *)

UpperChars == <<"A","B","C","D","E","F","G","H","I","J","K","L","M",
                "N","O","P","Q","R","S","T","U","V","W","X","Y","Z">>
LowerChars == <<"a","b","c","d","e","f","g","h","i","j","k","l","m",
                "n","o","p","q","r","s","t","u","v","w","x","y","z">>

\* code-point order of the characters used in names: 'A'..'Z' < '_' < 'a'..'z'
CharOrder == UpperChars \o <<"_">> \o LowerChars

OrdTable == [c \in {CharOrder[i] : i \in 1..Len(CharOrder)} |->
                CHOOSE i \in 1..Len(CharOrder) : CharOrder[i] = c]

Ord(c) == OrdTable[c]

LowerTable == [c \in {UpperChars[i] : i \in 1..Len(UpperChars)} |->
                LowerChars[CHOOSE i \in 1..Len(UpperChars) : UpperChars[i] = c]]

LowerChar(c) == IF c \in DOMAIN LowerTable THEN LowerTable[c] ELSE c

\* str.lower()
Lower(s) == [i \in 1..Len(s) |-> LowerChar(s[i])]

StartsWith(s, p) == Len(p) <= Len(s) /\ SubSeq(s, 1, Len(p)) = p

EndsWith(s, p) == Len(p) <= Len(s) /\ SubSeq(s, Len(s) - Len(p) + 1, Len(s)) = p

RECURSIVE Replace(_, _, _)
\* str.replace(old, new) for non-empty old: every occurrence, left to right
Replace(s, old, new) ==
    IF s = <<>> THEN <<>>
    ELSE IF StartsWith(s, old)
         THEN new \o Replace(SubSeq(s, Len(old) + 1, Len(s)), old, new)
         ELSE <<s[1]>> \o Replace(Tail(s), old, new)

RECURSIVE StrLess(_, _)
\* str < str (lexicographic by code point)
StrLess(a, b) ==
    IF b = <<>> THEN FALSE
    ELSE IF a = <<>> THEN TRUE
    ELSE IF a[1] = b[1] THEN StrLess(Tail(a), Tail(b))
    ELSE Ord(a[1]) < Ord(b[1])

RECURSIVE Sorted(_)
\* sorted(list of distinct strings), given as the set of its elements
Sorted(S) ==
    IF S = {} THEN <<>>
    ELSE LET m == CHOOSE x \in S : \A y \in S \ {x} : StrLess(x, y)
         IN  <<m>> \o Sorted(S \ {m})

Range(f) == {f[i] : i \in DOMAIN f}

----------------------------------------------------------------------------
(* Names used by the bounded file system *)

ThemeSuffix == <<"_","t","h","e","m","e">>

space == <<"s","p","a","c","e">>
Space == <<"S","p","a","c","e">>
rome == <<"r","o","m","e">>
my_theme_park == <<"m","y">> \o ThemeSuffix \o <<"_","p","a","r","k">>

Default == <<"D","e","f","a","u","l","t">>     \* theme_type passed at line 34
Custom == <<"C","u","s","t","o","m">>          \* theme_type passed at line 42
default == <<"d","e","f","a","u","l","t">>
custom == <<"c","u","s","t","o","m">>
unknown == <<"u","n","k","n","o","w","n">>

----------------------------------------------------------------------------
(* Theme definition files *)

required_fields == {"vocabulary", "metaphors", "tone"}

NoName == <<>>      \* the record has no "name" key

\* What a file holds, as far as the loader can tell files apart:
\*   kind "object"     a JSON object with the keys `keys` (name: its "name")
\*   kind "array"      a JSON array with the string elements `keys`
\*   kind "number"     a JSON number
\*   kind "badjson"    not well-formed JSON
\*   kind "unreadable" open() is refused (PermissionError)
\*   kind "absent"     no such file
Obj(keys, name) == [kind |-> "object", keys |-> keys, name |-> name]
Arr(elems) == [kind |-> "array", keys |-> elems, name |-> NoName]
Other(kind) == [kind |-> kind, keys |-> {}, name |-> NoName]

File(stem, content) == [stem |-> stem, content |-> content]

\* The files the bounded file system is populated from.
DirFiles ==
    { File(space \o ThemeSuffix, Obj(required_fields, NoName)),
      File(Space \o ThemeSuffix, Obj(required_fields, NoName)),
      File(rome, Obj(required_fields \cup {"name"}, space)),
      File(my_theme_park, Obj(required_fields, NoName)),
      File(rome, Obj({"vocabulary", "metaphors"}, NoName)),
      File(rome, Other("badjson")),
      File(my_theme_park, Arr(required_fields)),
      File(rome, Other("number")),
      File(Space \o ThemeSuffix, Other("unreadable")) }

\* A directory listing: stem |-> content, at most n files
Dirs(n) ==
    { [s \in {f.stem : f \in F} |-> (CHOOSE f \in F : f.stem = s).content] :
        F \in { G \in SUBSET DirFiles :
                  /\ Cardinality(G) <= n
                  /\ \A f, g \in G : f.stem = g.stem => f = g } }

EmptyDir == [s \in {} |-> Other("absent")]

Perms(S) == { p \in [1..Cardinality(S) -> S] : Range(p) = S }

Put(f, k, v) == [x \in DOMAIN f \cup {k} |-> IF x = k THEN v ELSE f[x]]

----------------------------------------------------------------------------
(* ThemeLoader *)

\* open(path) followed by json.load(f): the exception raised, or "none"
json_load(content) ==
    CASE content.kind = "absent" -> "FileNotFoundError"
      [] content.kind = "unreadable" -> "PermissionError"
      [] content.kind = "badjson" -> "JSONDecodeError"
      [] OTHER -> "none"

\* Mutant of _validate_theme: any() instead of all()
_validate_theme_Any(theme_data) ==
    IF theme_data.kind = "number" THEN "TypeError"
    ELSE IF required_fields \cap theme_data.keys # {} THEN "True" ELSE "False"

\* all(field in theme_data for field in required_fields); `in` raises
\* TypeError on a number
_validate_theme(theme_data) ==
    IF theme_data.kind = "number" THEN "TypeError"
    ELSE IF required_fields \subseteq theme_data.keys THEN "True" ELSE "False"

\* theme_data.get("name", stem.replace("_theme", "")); a list has no .get
theme_name(theme_data, stem) ==
    IF theme_data.kind # "object" THEN [exc |-> "AttributeError", name |-> NoName]
    ELSE IF "name" \in theme_data.keys
         THEN [exc |-> "none", name |-> theme_data.name]
         ELSE [exc |-> "none", name |-> Replace(stem, ThemeSuffix, <<>>)]

\* The body of the try block up to the computation of theme_name:
\* the exception that escapes it ("none" if none), whether the record
\* validated, and the key
ReadTheme(content, stem) ==
    LET e1 == json_load(content)
        v == _validate_theme(content)
        n == theme_name(content, stem)
    IN  IF e1 # "none" THEN [exc |-> e1, valid |-> FALSE, name |-> NoName]
        ELSE IF v = "TypeError" THEN [exc |-> v, valid |-> FALSE, name |-> NoName]
        ELSE IF v = "False" THEN [exc |-> "none", valid |-> FALSE, name |-> NoName]
        ELSE [exc |-> n.exc, valid |-> n.exc = "none", name |-> n.name]

NoPath == <<>>

\* theme_data after lines 72-73
LoadedEntry(content, theme_type, stem) ==
    [data |-> content, _source |-> Lower(theme_type), _file_path |-> <<theme_type, stem>>]

\* theme_data as add_custom_theme stores it (line 145): no "_source" key
AddedEntry(content) ==
    [data |-> content, _source |-> NoName, _file_path |-> NoPath]

\* Mutant of SetTheme: an existing entry is kept (setdefault instead of assignment)
SetTheme_KeepFirst(th, name, entry) == IF name \in DOMAIN th THEN th ELSE Put(th, name, entry)

\* self.themes[theme_name] = theme_data (lines 75 and 145)
SetTheme(th, name, entry) == Put(th, name, entry)

LoadCaught == {"JSONDecodeError", "FileNotFoundError"}

RECURSIVE _load_themes_from_directory(_, _, _, _)
\* The loop over theme_files, in the order `order` the glob produced:
\* the registry afterwards, the count, and the exception that escaped
_load_themes_from_directory(th, order, dir, theme_type) ==
    IF order = <<>> THEN [themes |-> th, loaded_count |-> 0, exc |-> "none"]
    ELSE LET theme_file == Head(order)
             r == ReadTheme(dir[theme_file], theme_file)
         IN  IF r.exc \in LoadCaught
             THEN _load_themes_from_directory(th, Tail(order), dir, theme_type)
             ELSE IF r.exc # "none"
             THEN [themes |-> th, loaded_count |-> 0, exc |-> r.exc]
             ELSE IF r.valid
             THEN LET rest == _load_themes_from_directory(
                                  SetTheme(th, r.name, LoadedEntry(dir[theme_file], theme_type, theme_file)),
                                  Tail(order), dir, theme_type)
                  IN  [rest EXCEPT !.loaded_count = @ + 1]
             ELSE _load_themes_from_directory(th, Tail(order), dir, theme_type)

Ret(op, arg, val, exc) == [op |-> op, arg |-> arg, val |-> val, exc |-> exc]

\* One directory of load_themes: load it if it exists, else mkdir it
LoadStep(th, exists, order, dir, theme_type, mkdirOk) ==
    IF exists
    THEN LET r == _load_themes_from_directory(th, order, dir, theme_type)
         IN  [themes |-> r.themes, exc |-> r.exc, exists |-> TRUE]
    ELSE IF mkdirOk THEN [themes |-> th, exc |-> "none", exists |-> TRUE]
         ELSE [themes |-> th, exc |-> "PermissionError", exists |-> FALSE]

\* load_themes(): called by __init__ (phase "new") and callable again later
load_themes ==
    /\ phase # "dead"
    /\ phase = "ready" => calls < MaxCalls
    /\ \E od \in Perms(DOMAIN defaultDir),
          mkD \in (IF defaultExists THEN {TRUE} ELSE BOOLEAN) :
         \E d \in {LoadStep(themes, defaultExists, od, defaultDir, Default, mkD)} :
         \E oc \in (IF d.exc = "none" THEN Perms(DOMAIN customDir) ELSE {<<>>}),
            mkC \in (IF d.exc = "none" /\ ~customExists THEN BOOLEAN ELSE {TRUE}) :
         \E c \in {IF d.exc # "none"
                   THEN [themes |-> d.themes, exc |-> d.exc, exists |-> customExists]
                   ELSE LoadStep(d.themes, customExists, oc, customDir, Custom, mkC)} :
             /\ themes' = c.themes
             /\ defaultExists' = d.exists
             /\ customExists' = c.exists
             /\ ret' = Ret("load_themes", NoName, "None", c.exc)
             /\ ioFailed' = (~d.exists \/ (d.exc = "none" /\ ~c.exists))
             /\ phase' = IF c.exc # "none" /\ phase = "new" THEN "dead" ELSE "ready"
    /\ calls' = IF phase = "new" THEN calls ELSE calls + 1
    /\ customDirBefore' = customDir
    /\ themesBefore' = themes
    /\ UNCHANGED <<defaultDir, customDir>>
    /\ UNCHANGED agentVars

\* The files add_custom_theme is called on
AddFiles == DirFiles \cup {File(rome, Other("absent"))}

\* The call reaches the `if permanent:` branch (line 147) and takes it
Copies(f, permanent) ==
    LET r == ReadTheme(f.content, f.stem) IN permanent /\ r.exc = "none" /\ r.valid

\* Mutant of AddResult: with permanent set, the file is copied under its own
\* name as soon as it has been read, before it is validated
AddResult_CopyFirst(th, cdir, cexists, f, permanent, mkdirOk, copyOk) ==
    LET r == ReadTheme(f.content, f.stem)
        made == cexists \/ mkdirOk
        read == f.content.kind \notin {"absent", "unreadable"}
        copied == permanent /\ read /\ made /\ copyOk
        cdir2 == IF copied THEN Put(cdir, f.stem, f.content) ELSE cdir
        cex2 == IF permanent /\ read THEN made ELSE cexists
    IN  IF r.exc # "none" \/ ~r.valid
        THEN [themes |-> th, customDir |-> cdir2, customExists |-> cex2, val |-> "False"]
        ELSE [themes |-> SetTheme(th, r.name, AddedEntry(f.content)),
              customDir |-> cdir2, customExists |-> cex2,
              val |-> IF permanent /\ ~copied THEN "False" ELSE "True"]

\* add_custom_theme(theme_file_path, permanent) on registry th and
\* Custom_Themes cdir; mkdirOk and copyOk are what the file system answers
\* to mkdir (line 153) and copy2 (line 156).  Any exception is caught at
\* line 166 and turned into False.
AddResult(th, cdir, cexists, f, permanent, mkdirOk, copyOk) ==
    LET r == ReadTheme(f.content, f.stem)
        made == cexists \/ mkdirOk
        unchanged == [themes |-> th, customDir |-> cdir, customExists |-> cexists]
    IN  IF r.exc # "none" \/ ~r.valid
        THEN unchanged @@ [val |-> "False"]
        ELSE LET th2 == SetTheme(th, r.name, AddedEntry(f.content))
             IN  IF ~permanent
                 THEN [themes |-> th2, customDir |-> cdir, customExists |-> cexists,
                       val |-> "True"]
                 ELSE IF made /\ copyOk
                 THEN [themes |-> th2,
                       customDir |-> Put(cdir, r.name \o ThemeSuffix, f.content),
                       customExists |-> TRUE, val |-> "True"]
                 ELSE [themes |-> th2, customDir |-> cdir, customExists |-> made,
                       val |-> "False"]

add_custom_theme ==
    /\ phase = "ready"
    /\ calls < MaxCalls
    /\ \E f \in AddFiles, permanent \in BOOLEAN :
        \E mkdirOk \in (IF Copies(f, permanent) /\ ~customExists THEN BOOLEAN ELSE {TRUE}),
           copyOk \in (IF Copies(f, permanent) THEN BOOLEAN ELSE {TRUE}) :
         \E a \in {AddResult(themes, customDir, customExists, f, permanent, mkdirOk, copyOk)} :
             /\ themes' = a.themes
             /\ customDir' = a.customDir
             /\ customExists' = a.customExists
             /\ ret' = Ret("add_custom_theme", [file |-> f, permanent |-> permanent],
                           a.val, "none")
             /\ ioFailed' = (Copies(f, permanent) /\ ~((customExists \/ mkdirOk) /\ copyOk))
    /\ calls' = calls + 1
    /\ customDirBefore' = customDir
    /\ themesBefore' = themes
    /\ UNCHANGED <<phase, defaultDir, defaultExists>>
    /\ UNCHANGED agentVars

\* The names get_theme is asked for
QueryNames == {space, Space, <<"S","P","A","C","E">>, <<"m","y","_","p","a","r","k">>}

\* dict.get's None, in the shape of an entry
NoTheme == [data |-> Other("absent"), _source |-> NoName, _file_path |-> NoPath]

\* self.themes.get(theme_name.lower())
get_theme_value(th, name) ==
    IF Lower(name) \in DOMAIN th THEN th[Lower(name)] ELSE NoTheme

get_theme ==
    /\ phase = "ready"
    /\ calls < MaxCalls
    /\ \E name \in QueryNames :
         ret' = Ret("get_theme", name, get_theme_value(themes, name), "none")
    /\ customDirBefore' = customDir
    /\ themesBefore' = themes
    /\ ioFailed' = FALSE
    /\ calls' = calls + 1
    /\ UNCHANGED <<phase, defaultDir, customDir, defaultExists, customExists, themes>>
    /\ UNCHANGED agentVars

\* list(self.themes.keys()), as the set of its elements
get_available_themes_value(th) == DOMAIN th

\* data.get("_source", "unknown")
SourceOf(entry) == IF entry._source = NoName THEN unknown ELSE entry._source

get_themes_by_source_value(th) ==
    [default |-> Sorted({n \in DOMAIN th : SourceOf(th[n]) = default}),
     custom |-> Sorted({n \in DOMAIN th : SourceOf(th[n]) = custom})]

get_themes_by_source ==
    /\ phase = "ready"
    /\ calls < MaxCalls
    /\ ret' = Ret("get_themes_by_source", NoName, get_themes_by_source_value(themes), "none")
    /\ customDirBefore' = customDir
    /\ themesBefore' = themes
    /\ ioFailed' = FALSE
    /\ calls' = calls + 1
    /\ UNCHANGED <<phase, defaultDir, customDir, defaultExists, customExists, themes>>
    /\ UNCHANGED agentVars

my_theme == <<"m", "y">> \o ThemeSuffix

\* What create_theme_template writes (lines 172-186): the required fields
\* and "name": "my_theme"
Template == Obj(required_fields \cup {"name"}, my_theme)

\* The names create_custom_theme_template is called with ("my_theme" is the
\* default of the parameter)
TemplateNames == {my_theme, rome}

\* create_custom_theme_template(theme_name) with create_theme_template
\* (lines 122-128, 170-195): mkdir is outside any try; a failing open or
\* json.dump is caught at line 193
CreateTemplateResult(cdir, cexists, name, mkdirOk, writeOk) ==
    IF ~(cexists \/ mkdirOk)
    THEN [customDir |-> cdir, customExists |-> FALSE, val |-> "None",
          exc |-> "PermissionError"]
    ELSE IF writeOk
    THEN [customDir |-> Put(cdir, name \o ThemeSuffix, Template), customExists |-> TRUE,
          val |-> "True", exc |-> "none"]
    ELSE [customDir |-> cdir, customExists |-> TRUE, val |-> "False", exc |-> "none"]

create_custom_theme_template ==
    /\ phase = "ready"
    /\ calls < MaxCalls
    /\ \E name \in TemplateNames :
        \E mkdirOk \in (IF customExists THEN {TRUE} ELSE BOOLEAN) :
        \E writeOk \in (IF customExists \/ mkdirOk THEN BOOLEAN ELSE {TRUE}) :
         \E c \in {CreateTemplateResult(customDir, customExists, name, mkdirOk, writeOk)} :
             /\ customDir' = c.customDir
             /\ customExists' = c.customExists
             /\ ret' = Ret("create_custom_theme_template", name, c.val, c.exc)
             /\ ioFailed' = ~((customExists \/ mkdirOk) /\ writeOk)
    /\ calls' = calls + 1
    /\ customDirBefore' = customDir
    /\ themesBefore' = themes
    /\ UNCHANGED <<phase, defaultDir, defaultExists, themes>>
    /\ UNCHANGED agentVars

NoThemes == [k \in {} |-> AddedEntry(Other("absent"))]

InitLoader ==
    /\ phase = "new"
    /\ defaultExists \in BOOLEAN
    /\ customExists \in BOOLEAN
    /\ defaultDir \in (IF defaultExists THEN Dirs(MaxFiles) ELSE {EmptyDir})
    /\ customDir \in (IF customExists
                      THEN Dirs(MaxFiles - Cardinality(DOMAIN defaultDir))
                      ELSE {EmptyDir})
    /\ themes = NoThemes
    /\ ret = Ret("__init__", NoName, "None", "none")
    /\ customDirBefore = customDir
    /\ themesBefore = themes
    /\ calls = 0
    /\ ioFailed = FALSE

\* The file system and loader while only the agent is exercised
IdleLoader ==
    /\ phase = "new"
    /\ defaultExists = FALSE
    /\ customExists = FALSE
    /\ defaultDir = EmptyDir
    /\ customDir = EmptyDir
    /\ themes = NoThemes
    /\ ret = Ret("__init__", NoName, "None", "none")
    /\ customDirBefore = customDir
    /\ themesBefore = themes
    /\ calls = 0
    /\ ioFailed = FALSE

----------------------------------------------------------------------------
(* EpicChangelogAgent *)
(* Prompt texts are sequences of words; a vocabulary or metaphor entry is   *)
(* the sequence of its words.  Model output is a sequence of characters.    *)

MaxTokens == 150                \* "max_tokens": 150
TemperatureHundredths == 80     \* "temperature": 0.8

\* self.themes (lines 67-88)
AgentThemes ==
    [medieval |->
       [vocabulary |-> << <<"vanquished">>, <<"forged">>, <<"conquered">>, <<"wielded">>,
                          <<"summoned">>, <<"banished">>, <<"realm">>, <<"sacred">>,
                          <<"legendary">>, <<"ancient">> >>,
        metaphors |-> << <<"dragon">>, <<"knight">>, <<"sword">>, <<"castle">>, <<"quest">>,
                         <<"prophecy">>, <<"dark", "magic">>, <<"holy", "grail">>,
                         <<"enchanted">> >>,
        tone |-> <<"epic", "fantasy", "adventure">>],
     space |->
       [vocabulary |-> << <<"obliterated">>, <<"engineered">>, <<"navigated">>,
                          <<"transmitted">>, <<"launched">>, <<"terraformed">>, <<"galaxy">>,
                          <<"cosmic">>, <<"stellar">>, <<"quantum">> >>,
        metaphors |-> << <<"starship">>, <<"alien", "threat">>, <<"black", "hole">>,
                         <<"wormhole">>, <<"space", "station">>, <<"nebula">>,
                         <<"asteroid", "belt">>, <<"hyperdrive">> >>,
        tone |-> <<"galactic", "space", "opera">>],
     superhero |->
       [vocabulary |-> << <<"defeated">>, <<"empowered">>, <<"protected">>, <<"rescued">>,
                          <<"unleashed">>, <<"transformed">>, <<"city">>, <<"ultimate">>,
                          <<"mighty">>, <<"heroic">> >>,
        metaphors |-> << <<"villain">>, <<"superpower">>, <<"secret", "identity">>,
                         <<"fortress">>, <<"energy", "beam">>, <<"time", "rift">>,
                         <<"dimensional", "portal">>, <<"crime", "wave">> >>,
        tone |-> <<"superhero", "comic", "book", "adventure">>],
     mythology |->
       [vocabulary |-> << <<"decreed">>, <<"blessed">>, <<"cursed">>, <<"awakened">>,
                          <<"ordained">>, <<"proclaimed">>, <<"divine">>, <<"immortal">>,
                          <<"eternal">>, <<"mystical">> >>,
        metaphors |-> << <<"god">>, <<"titan">>, <<"oracle">>, <<"temple">>,
                         <<"lightning", "bolt">>, <<"golden", "fleece">>, <<"underworld">>,
                         <<"pantheon">> >>,
        tone |-> <<"mythological", "epic">>]]

\* theme = theme if theme in self.themes else "medieval" (lines 93-94)
EffectiveTheme(theme) == IF theme \in DOMAIN AgentThemes THEN theme ELSE "medieval"

\* s contains p as a contiguous run (`p in s`)
Contains(s, p) == \E i \in 0..(Len(s) - Len(p)) : SubSeq(s, i + 1, i + Len(p)) = p

\* the system message (line 102)
SystemContent(theme) ==
    <<"You", "are", "a", "creative", "storyteller.", "Transform", "software", "changes",
      "into", "brief", "epic", theme, "stories.", "Keep", "responses", "to", "1-2",
      "sentences", "with", "an", "emoji.", "Be", "direct", "and", "dramatic.">>

\* the user message (line 103); the quotes are words of their own
UserContent(original_text) == <<"Transform:", "'">> \o original_text \o <<"'">>

\* messages and payload (lines 101-119) for the arguments of
\* generate_epic_changelog; theme is the effective theme
BuildPayload(original_text, drama_level, theme, model) ==
    [model |-> model,
     provider |-> "fireworks-ai",
     messages |-> << [role |-> "system", content |-> SystemContent(theme)],
                     [role |-> "user", content |-> UserContent(original_text)] >>,
     max_tokens |-> MaxTokens,
     temperature |-> TemperatureHundredths,
     stop |-> << "<think>" >>]

\* -- post-processing of the model output (lines 130-150), on characters --

Whitespace == {" ", "\n", "\t"}

RECURSIVE LStrip(_)
LStrip(s) == IF s # <<>> /\ s[1] \in Whitespace THEN LStrip(Tail(s)) ELSE s

RECURSIVE RStrip(_)
RStrip(s) ==
    IF s # <<>> /\ s[Len(s)] \in Whitespace THEN RStrip(SubSeq(s, 1, Len(s) - 1)) ELSE s

\* str.strip()
Strip(s) == RStrip(LStrip(s))

\* s.split(sep)[-1]: what follows the last occurrence of sep (s if none)
AfterLast(s, sep) ==
    IF ~Contains(s, sep) THEN s
    ELSE LET i == CHOOSE j \in 0..(Len(s) - Len(sep)) :
                     /\ SubSeq(s, j + 1, j + Len(sep)) = sep
                     /\ \A k \in (j + 1)..(Len(s) - Len(sep)) :
                            SubSeq(s, k + 1, k + Len(sep)) # sep
         IN  SubSeq(s, i + Len(sep) + 1, Len(s))

ThinkOpen == <<"<", "t", "h", "i", "n", "k", ">">>
ThinkClose == <<"<", "/", "t", "h", "i", "n", "k", ">">>

\* code points: SWORDS U+2694, VS16 U+FE0F, CASTLE U+1F3F0, DRAGON U+1F409,
\* ROCKET U+1F680, BOOM U+1F4A5, ZAP U+26A1, MASKS U+1F3AD
Emojis == { <<"SWORDS", "VS16">>, <<"CASTLE">>, <<"DRAGON">>, <<"ROCKET">>,
            <<"BOOM">>, <<"ZAP">>, <<"MASKS">> }

\* emoji_map.get(theme, MASKS) (lines 142-148)
emoji_map(theme) ==
    CASE theme = "medieval" -> <<"SWORDS", "VS16">>
      [] theme = "space" -> <<"ROCKET">>
      [] theme = "superhero" -> <<"BOOM">>
      [] theme = "mythology" -> <<"ZAP">>
      [] OTHER -> <<"MASKS">>

\* lines 130-150 applied to result['choices'][0]['message']['content']
PostProcess(raw, theme) ==
    LET c1 == Strip(raw)
        c2 == IF StartsWith(c1, ThinkOpen) THEN Strip(AfterLast(c1, ThinkClose)) ELSE c1
        c3 == Replace(Replace(c2, ThinkOpen, <<>>), ThinkClose, <<>>)
    IN  IF \E e \in Emojis : Contains(c3, e)
        THEN c3
        ELSE emoji_map(theme) \o <<" ">> \o c3

\* -- what generate_epic_changelog returns --
Content(text) == [kind |-> "content", status |-> 200, text |-> text]
ApiError(status, text) == [kind |-> "api_error", status |-> status, text |-> text]
Failed(e) == [kind |-> "failed", status |-> 0, text |-> e]
Unavailable == [kind |-> "unavailable", status |-> 0, text |-> <<>>]
NoResult == [kind |-> "none", status |-> 0, text |-> <<>>]

NoRequest == [model |-> "None", provider |-> "none", messages |-> <<>>,
              max_tokens |-> 0, temperature |-> 0, stop |-> <<>>]

ok == <<"o", "k">>

\* Model outputs the backend may answer with
Contents ==
    { <<" ">> \o ok \o <<"\n">>,
      <<"SWORDS", "VS16", " ">> \o ok,
      <<"SWORDS", " ">> \o ok,
      ThinkOpen \o <<"x">> \o ThinkClose \o <<" ">> \o ok,
      ok \o <<" ">> \o ThinkClose,
      <<"MASKS">> }

\* A response body of 101 characters
LongBody == [i \in 1..101 |-> "x"]

\* What requests.post and the body may do:
\*   "raise"      requests.post raises (connection, timeout)
\*   "status"     a response with status_code # 200
\*   "notjson"    status 200, response.json() raises
\*   "nochoices"  status 200, JSON without the 'choices' path (KeyError)
\*   "content"    status 200 with a content string
Backend ==
    { [kind |-> "raise", status |-> 0, text |-> <<"API Error">>],
      [kind |-> "status", status |-> 503, text |-> <<"Service Unavailable">>],
      [kind |-> "status", status |-> 401, text |-> LongBody],
      [kind |-> "notjson", status |-> 200, text |-> <<"Expecting value">>],
      [kind |-> "nochoices", status |-> 200, text |-> <<"'choices'">>] }
    \cup { [kind |-> "content", status |-> 200, text |-> c] : c \in Contents }

NoResponse == [kind |-> "none", status |-> 0, text |-> <<>>]

\* response.text[:100]
Slice100(text) == SubSeq(text, 1, IF Len(text) < 100 THEN Len(text) ELSE 100)

\* Mutant of ApiResult: the body of an error response is not cut to 100
ApiResult_Uncut(b, theme) ==
    CASE b.kind = "raise" -> Failed(b.text)
      [] b.kind = "status" -> ApiError(b.status, b.text)
      [] b.kind \in {"notjson", "nochoices"} -> Failed(b.text)
      [] OTHER -> Content(PostProcess(b.text, theme))

\* lines 121-152: the value returned once requests.post has answered b
ApiResult(b, theme) ==
    CASE b.kind = "raise" -> Failed(b.text)
      [] b.kind = "status" -> ApiError(b.status, Slice100(b.text))
      [] b.kind \in {"notjson", "nochoices"} -> Failed(b.text)
      [] OTHER -> Content(PostProcess(b.text, theme))

\* The returned string, as the pieces its f-string is made of (lines 150,
\* 152, 161, 164); WARNING is U+26A0
Render(r) ==
    CASE r.kind = "failed" ->
           <<"WARNING", "VS16", " Failed to summon the epic transformation: ">> \o r.text
      [] r.kind = "api_error" ->
           <<"WARNING", "VS16", " API Error: ", ToString(r.status), " - ">> \o r.text
      [] r.kind = "unavailable" ->
           <<"MASKS", " Epic transformation unavailable - please check your setup">>
      [] OTHER -> r.text

\* simple_prompt (line 156)
SimplePrompt(original_text, theme) ==
    <<"Transform:">> \o original_text \o <<"->", "Epic", theme, ":">>

\* lines 157-158: generated_text with the prompt removed
LocalResult(generated, original_text, theme) ==
    Content(Replace(generated, SimplePrompt(original_text, theme), <<>>))

NewAgent == [phase |-> "new", api_key |-> "None", model |-> "None",
             use_api |-> FALSE, local_pipeline |-> FALSE]

\* Mutant of AgentInit: without a key the constructor raises at once, and the
\* local pipeline is tried only after a failed InferenceClient
AgentInit_KeyRequired(api_key, env_key, model, env_model, clientOk, transformers, pipelineOk) ==
    LET key == IF api_key # "None" THEN api_key ELSE env_key
        mdl == IF model # "None" THEN model ELSE env_model
        use_api == key # "None" /\ clientOk
        base == [phase |-> "ready", api_key |-> key, model |-> mdl,
                 use_api |-> use_api, local_pipeline |-> FALSE]
    IN  IF key = "None" THEN [base EXCEPT !.phase = "dead"]
        ELSE IF use_api THEN base
        ELSE IF transformers /\ pipelineOk THEN [base EXCEPT !.local_pipeline = TRUE]
        ELSE [base EXCEPT !.phase = "dead"]

\* __init__ (lines 26-64); TRANSFORMERS_AVAILABLE, and whether InferenceClient
\* and pipeline construct, are the environment's
AgentInit(api_key, env_key, model, env_model, clientOk, transformers, pipelineOk) ==
    LET key == IF api_key # "None" THEN api_key ELSE env_key
        mdl == IF model # "None" THEN model ELSE env_model
        use_api == key # "None" /\ clientOk
        base == [phase |-> "ready", api_key |-> key, model |-> mdl,
                 use_api |-> use_api, local_pipeline |-> FALSE]
    IN  IF use_api THEN base
        ELSE IF transformers /\ pipelineOk THEN [base EXCEPT !.local_pipeline = TRUE]
        ELSE [base EXCEPT !.phase = "dead"]      \* raise ValueError

Keys == {"None", "test-key"}
Models == {"None", "SmolLM3-3B"}

\* HUGGINGFACE_API_KEY of the environment (os.getenv, line 28)
EnvKeys == {"None", "env-key"}

NoCtor == [api_key |-> "None", env_key |-> "None", clientOk |-> FALSE,
           transformers |-> FALSE, pipelineOk |-> FALSE]

\* The environments a construction is tried in. What the constructor never
\* consults is fixed: InferenceClient is built only with a key (line 35), the
\* pipeline only when the API is not used (line 49) and transformers was
\* imported (line 50); setup.py installs huggingface_hub and no transformers.
Environments(api_key, env_key) ==
    { e \in [clientOk : BOOLEAN, transformers : BOOLEAN, pipelineOk : BOOLEAN] :
        /\ (api_key = "None" /\ env_key = "None") => e.clientOk
        /\ ((api_key # "None" \/ env_key # "None") /\ e.clientOk) => ~e.transformers
        /\ ~e.transformers => ~e.pipelineOk }

EpicChangelogAgent_init ==
    /\ agent.phase = "new"
    /\ \E api_key \in Keys, env_key \in EnvKeys, model \in Models :
         \E e \in Environments(api_key, env_key) :
           /\ agent' = AgentInit(api_key, env_key, model, "None",
                                 e.clientOk, e.transformers, e.pipelineOk)
           /\ ctor' = [api_key |-> api_key, env_key |-> env_key, clientOk |-> e.clientOk,
                       transformers |-> e.transformers, pipelineOk |-> e.pipelineOk]
    /\ UNCHANGED <<genArgs, request, posts, result, response, agentCalls, fileCall>>
    /\ UNCHANGED loaderVars

Texts == { <<"Fixed", "minor", "bug", "in", "login", "form">>, <<"Added", "dragon">> }
Levels == 1..10
ThemeArgs == {"medieval", "space", "superhero", "mythology", "pirate"}

NoArgs == [original_text |-> <<>>, drama_level |-> 0, theme |-> "none"]

NoFileCall == [file |-> [kind |-> "none", lines |-> <<>>], results |-> <<>>,
               generated |-> 0, exc |-> "none"]

\* What the local pipeline may return for simple_prompt (line 157)
LocalOutputs(original_text, theme) ==
    { SimplePrompt(original_text, theme) \o <<"A", "tale">>, <<"A", "tale">> }

\* generate_epic_changelog(original_text, drama_level, theme)
\* What one call may get from the backend and return for it (lines 126-152)
ApiOutcomes(theme) == { [response |-> b, result |-> ApiResult(b, theme)] : b \in Backend }

\* What one call may get from the local pipeline and return for it (lines 154-158)
LocalOutcomes(ag, original_text, theme) ==
    IF ag.local_pipeline
    THEN { LocalResult(out, original_text, theme) : out \in LocalOutputs(original_text, theme) }
         \cup { Failed(<<"pipeline error">>) }
    ELSE { Unavailable }

\* generate_epic_changelog(original_text, drama_level, theme)
generate_epic_changelog ==
    /\ agent.phase = "ready"
    /\ agentCalls < MaxAgentCalls
    /\ agentCalls' = agentCalls + 1
    /\ \E th \in ThemeArgs :
         IF agent.use_api
         THEN \E outcomes \in {ApiOutcomes(EffectiveTheme(th))} :
              \E original_text \in Texts, drama_level \in Levels :
                /\ genArgs' = [original_text |-> original_text,
                               drama_level |-> drama_level, theme |-> th]
                /\ request' = BuildPayload(original_text, drama_level,
                                           EffectiveTheme(th), agent.model)
                /\ posts' = 1
                /\ \E o \in outcomes :
                     /\ response' = o.response
                     /\ result' = o.result
         ELSE \E original_text \in Texts, drama_level \in Levels :
                /\ genArgs' = [original_text |-> original_text,
                               drama_level |-> drama_level, theme |-> th]
                /\ request' = NoRequest
                /\ posts' = 0
                /\ response' = NoResponse
                /\ result' \in LocalOutcomes(agent, original_text, EffectiveTheme(th))
    /\ fileCall' = NoFileCall
    /\ UNCHANGED <<agent, ctor>>
    /\ UNCHANGED loaderVars

----------------------------------------------------------------------------
(* process_changelog_file *)

\* Lines of a changelog file as f.readlines() gives them: words and white
\* space, each line ending with its newline
FileLines ==
    { <<"Added", " ", "dragon", "\n">>,
      <<" ", "Fixed", " ", "bug", "\t", "\n">>,
      <<"\n">>,
      <<" ", "\t", "\n">> }

SeqsUpTo(S, n) == UNION { [1..k -> S] : k \in 0..n }

\* What open(filename) finds: no such file, a file that cannot be opened or
\* decoded, or a file of lines
Files(n) ==
    { [kind |-> "absent", lines |-> <<>>], [kind |-> "unreadable", lines |-> <<>>] }
    \cup { [kind |-> "file", lines |-> ls] : ls \in SeqsUpTo(FileLines, n) }

\* Mutant of KeptLines: every line is stripped and kept, the blank ones too
KeptLines_Unfiltered(lines) == [i \in DOMAIN lines |-> Strip(lines[i])]

\* [line.strip() for line in f.readlines() if line.strip()] (line 170)
KeptLines(lines) ==
    SelectSeq([i \in DOMAIN lines |-> Strip(lines[i])], LAMBDA l : l # <<>>)

\* The answers of the backend tried during file processing
FileBackend ==
    { b \in Backend : b.kind = "raise" \/ (b.kind = "content" /\ b.text = <<"MASKS">>) }

\* What one generate_epic_changelog(line, drama_level, theme) call may return
\* for agent ag (lines 98-164)
GenerateResults(ag, original_text, theme) ==
    IF ag.use_api THEN { ApiResult(b, theme) : b \in FileBackend }
    ELSE IF ag.local_pipeline
    THEN { LocalResult(SimplePrompt(original_text, theme) \o <<"A", "tale">>,
                       original_text, theme),
           Failed(<<"pipeline error">>) }
    ELSE { Unavailable }

\* f"Original: {line}\nEpic: {epic_version}\n" (line 175)
Entry(line, epic) == [kind |-> "entry", original |-> line, epic |-> epic]

\* The one-element lists of lines 180 and 182
NotFound == [kind |-> "not_found", original |-> <<>>, epic |-> NoResult]
Curse == [kind |-> "curse", original |-> <<>>, epic |-> NoResult]

\* The lists the loop of lines 172-177 may build over the kept lines
RECURSIVE EpicResults(_, _, _)
EpicResults(ag, kept, theme) ==
    IF kept = <<>> THEN { <<>> }
    ELSE { <<Entry(Head(kept), epic)>> \o rest :
             epic \in GenerateResults(ag, Head(kept), theme),
             rest \in EpicResults(ag, Tail(kept), theme) }

\* process_changelog_file(filename, drama_level, theme) (lines 166-182): what
\* it may return, with the number of generate_epic_changelog calls it made
ProcessFile(ag, file, theme) ==
    IF file.kind = "absent"
    THEN { [file |-> file, results |-> <<NotFound>>, generated |-> 0, exc |-> "none"] }
    ELSE IF file.kind = "unreadable"
    THEN { [file |-> file, results |-> <<Curse>>, generated |-> 0, exc |-> "none"] }
    ELSE { [file |-> file, results |-> rs, generated |-> Len(rs), exc |-> "none"] :
             rs \in EpicResults(ag, KeptLines(file.lines), theme) }

\* The theme argument of process_changelog_file: its default (line 166)
FileThemes == {"medieval"}

\* process_changelog_file(filename, drama_level, theme); drama_level reaches
\* the request payload only and no part of the returned list
process_changelog_file ==
    /\ agent.phase = "ready"
    /\ agentCalls < MaxAgentCalls
    /\ agentCalls' = agentCalls + 1
    /\ \E file \in Files(MaxLines), th \in FileThemes :
         fileCall' \in ProcessFile(agent, file, EffectiveTheme(th))
    /\ genArgs' = NoArgs
    /\ request' = NoRequest
    /\ posts' = 0
    /\ result' = NoResult
    /\ response' = NoResponse
    /\ UNCHANGED <<agent, ctor>>
    /\ UNCHANGED loaderVars

InitAgent ==
    /\ agent = NewAgent
    /\ genArgs = NoArgs
    /\ request = NoRequest
    /\ posts = 0
    /\ result = NoResult
    /\ response = NoResponse
    /\ ctor = NoCtor
    /\ agentCalls = 0
    /\ fileCall = NoFileCall


Init == InitLoader /\ InitAgent

Next ==
    \/ load_themes
    \/ add_custom_theme
    \/ get_theme
    \/ get_themes_by_source
    \/ create_custom_theme_template

Spec == Init /\ [][Next]_vars

InitA == IdleLoader /\ InitAgent

NextAgent ==
    \/ EpicChangelogAgent_init
    \/ generate_epic_changelog
    \/ process_changelog_file

SpecAgent == InitA /\ [][NextAgent]_vars

----------------------------------------------------------------------------
(* Properties of the theme registry (checked under Spec) *)

\* A definition the registry is meant to accept: an object with the three
\* required fields
ValidDefinition(content) ==
    content.kind = "object" /\ required_fields \subseteq content.keys

\* The keys of the valid definitions of a directory
KeysIn(dir) ==
    { theme_name(dir[s], s).name : s \in {t \in DOMAIN dir : ValidDefinition(dir[t])} }

LoadReturned == ret.op = "load_themes" /\ ret.exc = "none"

\* C1: once load_themes has returned, a key that a valid default definition
\* and a valid custom definition share is held by the custom one: the entry
\* is that of a custom file with this key and its _source is "custom".
C1_CustomOverridesDefault ==
    LoadReturned =>
        \A N \in KeysIn(defaultDir) \cap KeysIn(customDir) :
            /\ N \in DOMAIN themes
            /\ themes[N]._source = custom
            /\ \E s \in DOMAIN customDir :
                  /\ ValidDefinition(customDir[s])
                  /\ theme_name(customDir[s], s).name = N
                  /\ themes[N] = LoadedEntry(customDir[s], Custom, s)

\* A load returned with a default and a custom definition of one key whose
\* contents differ, and the registry holds the custom content
C1_Witness ==
    /\ LoadReturned
    /\ \E sd \in DOMAIN defaultDir, sc \in DOMAIN customDir :
          /\ ValidDefinition(defaultDir[sd]) /\ ValidDefinition(customDir[sc])
          /\ theme_name(defaultDir[sd], sd).name = theme_name(customDir[sc], sc).name
          /\ defaultDir[sd] # customDir[sc]
          /\ themes[theme_name(customDir[sc], sc).name].data = customDir[sc]

\* C2: every entry of the registry, in every state, is an object that has the
\* three required fields vocabulary, metaphors and tone.
C2_EntriesHaveRequiredFields ==
    \A k \in DOMAIN themes :
        /\ themes[k].data.kind = "object"
        /\ required_fields \subseteq themes[k].data.keys

\* add_custom_theme has just refused an object lacking a required field,
\* and the registry holds entries
C2_Witness ==
    /\ ret.op = "add_custom_theme"
    /\ ret.val = "False"
    /\ ret.arg.file.content.kind = "object"
    /\ ~(required_fields \subseteq ret.arg.file.content.keys)
    /\ DOMAIN themes # {}
    /\ themes = themesBefore

\* C3 (as claimed): a load over two existing directories never raises, and
\* every valid definition of both directories is in the registry afterwards,
\* whatever the other files hold.
C3_LoadIsolatesFailures ==
    (ret.op = "load_themes" /\ defaultExists /\ customExists) =>
        /\ ret.exc = "none"
        /\ KeysIn(defaultDir) \cup KeysIn(customDir) \subseteq DOMAIN themes

\* C4 (as claimed): get_theme called with a case variant of the key of an
\* entry returns that entry.
C4_GetIsCaseInsensitive ==
    ret.op = "get_theme" =>
        \A k \in DOMAIN themes : Lower(ret.arg) = Lower(k) => ret.val = themes[k]

\* A file that is not well-formed JSON or that fails validation
RejectedFile(content) ==
    content.kind \in {"badjson", "array", "number", "object"} /\ ~ValidDefinition(content)

\* C5: add_custom_theme with permanent=True on a file that is not well-formed
\* or not a valid definition returns False, raises nothing, and leaves the
\* Custom_Themes directory as it was.
C5_RejectedAddLeavesCustomDir ==
    (/\ ret.op = "add_custom_theme"
     /\ ret.arg.permanent
     /\ RejectedFile(ret.arg.file.content)) =>
        /\ ret.val = "False"
        /\ ret.exc = "none"
        /\ customDir = customDirBefore

\* A permanent add of a rejected file has returned while Custom_Themes exists
C5_Witness ==
    /\ ret.op = "add_custom_theme"
    /\ ret.arg.permanent
    /\ RejectedFile(ret.arg.file.content)
    /\ ret.val = "False"
    /\ customExists

IsSorted(list) == \A i \in 1..(Len(list) - 1) : StrLess(list[i], list[i + 1])

\* C6 (as claimed): the two lists of get_themes_by_source are sorted and
\* disjoint, and every name of get_available_themes is in exactly one of them.
C6_SourcesPartitionRegistry ==
    ret.op = "get_themes_by_source" =>
        LET d == Range(ret.val.default)
            c == Range(ret.val.custom)
        IN  /\ IsSorted(ret.val.default) /\ IsSorted(ret.val.custom)
            /\ d \cap c = {}
            /\ d \cup c = get_available_themes_value(themes)

\* The key C7 gives a file: its name field, else its stem without a trailing
\* "_theme"
TrailingSuffixKey(content, stem) ==
    IF "name" \in content.keys THEN content.name
    ELSE IF EndsWith(stem, ThemeSuffix) THEN SubSeq(stem, 1, Len(stem) - Len(ThemeSuffix))
    ELSE stem

\* C7 (as claimed): after the load of a new registry has returned, its keys
\* are exactly the keys of the valid definitions of the two directories, a
\* file's key being its name field or else its stem without the trailing
\* "_theme".
C7_KeysAreDerivedFromFiles ==
    (LoadReturned /\ themesBefore = NoThemes) =>
        DOMAIN themes =
            { TrailingSuffixKey(defaultDir[s], s) :
                  s \in {t \in DOMAIN defaultDir : ValidDefinition(defaultDir[t])} }
            \cup
            { TrailingSuffixKey(customDir[s], s) :
                  s \in {t \in DOMAIN customDir : ValidDefinition(customDir[t])} }

----------------------------------------------------------------------------
(* Properties of the generation request (checked under SpecAgent) *)

Min(a, b) == IF a < b THEN a ELSE b

Sent == posts = 1

\* C8 (as claimed): the request carries max_tokens = min(200, 100 + 10*level)
\* and temperature = min(1.0, 0.5 + 0.05*level), in hundredths.
C8_ParametersScaleWithLevel ==
    Sent =>
        /\ request.max_tokens = Min(200, 100 + 10 * genArgs.drama_level)
        /\ request.temperature = Min(100, 50 + 5 * genArgs.drama_level)

FirstN(list, n) == SubSeq(list, 1, Min(n, Len(list)))

\* C9 (as claimed): the system message contains the tone of the theme, its
\* first 8 vocabulary entries and its first 6 metaphor entries.
C9_SystemMessageEmbedsTheme ==
    Sent =>
        LET t == AgentThemes[EffectiveTheme(genArgs.theme)]
            sys == request.messages[1].content
        IN  /\ Contains(sys, t.tone)
            /\ \A v \in Range(FirstN(t.vocabulary, 8)) : Contains(sys, v)
            /\ \A m \in Range(FirstN(t.metaphors, 6)) : Contains(sys, m)

\* The four bands of C10
Band(level) == IF level <= 3 THEN 1 ELSE IF level <= 6 THEN 2 ELSE IF level <= 8 THEN 3 ELSE 4

\* C10 (as claimed): the request built for a level of another band differs
\* from the one sent (so the requests for 3 and 4, 6 and 7, 8 and 9 differ),
\* in its system message.
C10_BandsGiveDifferentRequests ==
    Sent =>
        \A l \in Levels :
            Band(l) # Band(genArgs.drama_level) =>
                BuildPayload(genArgs.original_text, l, EffectiveTheme(genArgs.theme),
                             request.model).messages[1]
                    # request.messages[1]

HasEmoji(text) == \E e \in Emojis : Contains(text, e)

\* C11 (as claimed): the post-processed output has no surrounding whitespace
\* and post-processing it again returns it unchanged; an output that holds a
\* decorative symbol gets nothing added, and one that holds none starts with
\* exactly one theme emoji and one space.
C11_PostProcessIsIdempotent ==
    (Sent /\ response.kind = "content") =>
        LET theme == EffectiveTheme(genArgs.theme)
            out == result.text
            prefix == emoji_map(theme) \o <<" ">>
        IN  /\ Strip(out) = out
            /\ PostProcess(out, theme) = out
            /\ HasEmoji(response.text) => Len(out) <= Len(Strip(response.text))
            /\ ~HasEmoji(response.text) =>
                  /\ StartsWith(out, prefix)
                  /\ ~HasEmoji(SubSeq(out, Len(prefix) + 1, Len(out)))

BackendFailed == Sent /\ response.kind \in {"raise", "status", "notjson", "nochoices"}

SummonPrefix == <<"WARNING", "VS16", " Failed to summon the epic transformation: ">>

C13_IoFailureReturnsFalse ==
    (ioFailed /\ ret.op \in {"load_themes", "add_custom_theme", "create_custom_theme_template"}) =>
        /\ ret.exc = "none"
        /\ ret.val = "False"

\* C16 (as claimed): when add_custom_theme returns False, the registry is as
\* it was before the call.
C16_FailedAddLeavesRegistry ==
    (ret.op = "add_custom_theme" /\ ret.val = "False") => themes = themesBefore

\* C17 (as claimed): once load_themes has returned, every template that
\* create_custom_theme_template(N) wrote into Custom_Themes is in the registry
\* under the key N.
C17_TemplateLoadsUnderItsName ==
    LoadReturned =>
        \A N \in TemplateNames :
            (/\ (N \o ThemeSuffix) \in DOMAIN customDir
             /\ customDir[N \o ThemeSuffix] = Template) =>
                /\ N \in DOMAIN themes
                /\ themes[N].data = Template

Constructed == agent.phase # "new"

NoKey == ctor.api_key = "None" /\ ctor.env_key = "None"

GivenKey == IF ctor.api_key # "None" THEN ctor.api_key ELSE ctor.env_key

FileProcessed == fileCall.file.kind # "none"

\* A line with a character that is not white space
NonBlank(line) == \E i \in DOMAIN line : line[i] \notin Whitespace

NonBlankLines == SelectSeq(fileCall.file.lines, NonBlank)

\* C15: process_changelog_file on a file that does not exist returns a list of
\* exactly one element, the 'could not be found' message, without raising and
\* without any generation call; on a readable file it returns exactly one
\* result per non-blank line, in file order.
C15_OneResultPerNonBlankLine ==
    FileProcessed =>
        /\ fileCall.exc = "none"
        /\ fileCall.file.kind = "absent" =>
              /\ fileCall.results = <<NotFound>>
              /\ fileCall.generated = 0
        /\ fileCall.file.kind = "file" =>
              /\ Len(fileCall.results) = Len(NonBlankLines)
              /\ fileCall.generated = Len(NonBlankLines)
              /\ \A i \in DOMAIN fileCall.results :
                    /\ fileCall.results[i].kind = "entry"
                    /\ fileCall.results[i].original = Strip(NonBlankLines[i])

\* A file of a blank line and a padded line was processed: one result, for
\* the stripped line
C15_Witness ==
    /\ fileCall.file.kind = "file"
    /\ Len(fileCall.file.lines) = 2
    /\ Len(NonBlankLines) = 1
    /\ fileCall.generated = 1
    /\ Len(fileCall.results) = 1
    /\ fileCall.results[1].original = <<"Fixed", " ", "bug">>

============================================================================
